---- MODULE Spec2Model ----
(***************************************************************************)
(* Model of conveyor.Build (src/conveyor.go): one Build invocation on a    *)
(* Conveyor, stepped at the granularity of its collaborator calls (os,     *)
(* git, docker daemon, status client).  Every collaborator outcome is      *)
(* chosen nondeterministically at the call.  (Spec)                        *)
(*                                                                         *)
(* Two further components have their own specification: one stream of the *)
(* s3 log sink (SpecLogs), and two Builds running at the same time on one  *)
(* docker daemon and registry (SpecConc).                                  *)
(*                                                                         *)
(* Strings that the code takes apart are token sequences: a repository     *)
(* identifier is the sequence of its '/'-separated pieces with the         *)
(* separators kept, an error message is the sequence of its words.  The    *)
(* nil error is the empty sequence.                                        *)
(***************************************************************************)
EXTENDS Integers, Sequences, FiniteSets, TLC

\* One Build invocation.
VARIABLES opts, github, pc, dir, err, i, calls, stages, ret

\* One log stream of the s3 log sink.
VARIABLES lw, puts, lops, opened

\* Two Build invocations that run at the same time on one docker daemon.
VARIABLES copts, cpc, ci, cdir, cerr, work, local, registry, tagged, pushed

buildVars == <<opts, github, pc, dir, err, i, calls, stages, ret>>
logVars == <<lw, puts, lops, opened>>
concVars == <<copts, cpc, ci, cdir, cerr, work, local, registry, tagged, pushed>>

vars == <<buildVars, logVars, concVars>>

(* ---------------------------------------------------------------------- *)
(* Values                                                                 *)
(* ---------------------------------------------------------------------- *)

Nil == <<>>

Context == "container/docker"

\* Repository identifiers a request may carry: well formed, without a
\* separator, and with two separators.
Repositories ==
  { <<"acme", "/", "widgets">>,
    <<"acmewidgets">>,
    <<"acme", "/", "widgets", "/", "extra">> }

Commits == {"abc123"}

Branches == {"main", "latest", "abc123"}

Tokens == {"", "secret"}

\* Errors the collaborators can return.
MkdirErr == <<"mkdir:", "permission", "denied">>
ExitErr == <<"exit", "status", "1">>
APIErr == <<"401", "Bad", "credentials">>
AuthErr == <<"unauthorized:", "authentication", "required">>
NoTagErr == <<"Tag", "not", "found", "in", "repository">>

RepoName(repo) == IF Len(repo) = 1 THEN "acmewidgets"
                  ELSE IF Len(repo) = 3 THEN "acme/widgets"
                  ELSE "acme/widgets/extra"

TagNotFoundErr(repo, tag) ==
  <<"Error:", "Tag", tag, "not", "found", "in", "repository", RepoName(repo)>>

\* fmt.Errorf("<stage>: %v", err)
Errorf(stage, e) == <<stage>> \o e

(* ---------------------------------------------------------------------- *)
(* Pure functions                                                         *)
(* ---------------------------------------------------------------------- *)

\* Position of the first separator in s, 0 when there is none.
RECURSIVE IndexFrom(_, _, _)
IndexFrom(s, sep, k) ==
  IF k > Len(s) THEN 0
  ELSE IF s[k] = sep THEN k
  ELSE IndexFrom(s, sep, k + 1)

\* strings.SplitN(repo, "/", 2): at most two parts, cut at the first
\* separator; the whole string as a single part when there is none.
SplitN2(s, sep) ==
  LET k == IndexFrom(s, sep, 1)
  IN  IF k = 0 THEN << s >>
      ELSE << SubSeq(s, 1, k - 1), SubSeq(s, k + 1, Len(s)) >>

\* tagNotFoundRegex `.*Tag (\S+) not found in repository (\S+)` on the
\* words of the message.
tagNotFound(e) ==
  \E k \in 1..Len(e) :
    /\ k + 6 <= Len(e)
    /\ e[k] = "Tag"
    /\ e[k + 2] = "not"
    /\ e[k + 3] = "found"
    /\ e[k + 4] = "in"
    /\ e[k + 5] = "repository"

\* newGitHubClient: the fake client when the token is empty.
newGitHubClient(token) == IF token = "" THEN "nullGitHubClient" ELSE "github"

\* What CreateStatus can return on each client.
CreateStatusResults(client) ==
  IF client = "nullGitHubClient" THEN {Nil} ELSE {Nil, APIErr}

\* updateStatus indexes parts[1] before the call: it panics when the
\* repository has no separator.
updateStatusPanics(repo) == Len(SplitN2(repo, "/")) < 2

\* The CreateStatus call updateStatus makes.
updateStatus(repo, commit, status, e) ==
  LET parts == SplitN2(repo, "/")
  IN  [on |-> github, op |-> "CreateStatus",
       args |-> <<parts[1], parts[2], commit, status, Context>>,
       err |-> e]

\* Bug variant: "latest" appended to the tags instead of put in front.
PushTags_LatestLast(o) == <<o.Branch, o.Commit>> \o <<"latest">>

\* Candidate tags of the cache warm, the tags applied, the tags pushed.
PullTags(o) == <<o.Branch, "latest">>
BuildTags(o) == <<o.Branch, o.Commit>>
PushTags(o) == <<"latest">> \o BuildTags(o)

\* Bug variant: any failed pull goes on to the next tag.
pullTagsContinue_AnyError(e) == e # Nil

\* pullTags: after a failed pull, go on to the next tag only on a
\* tag-not-found error.
pullTagsContinue(e) == e # Nil /\ tagNotFound(e)

Call(on, op, args, e) == [on |-> on, op |-> op, args |-> args, err |-> e]

(* ---------------------------------------------------------------------- *)
(* Build                                                                  *)
(* ---------------------------------------------------------------------- *)

Builds == {1, 2}

\* Repositories, tags and images of the two builds.  An image is named by
\* the commit of the tree it was built from; "old" is an image published
\* before, "none" no image.
ConcRepos == { <<"acme", "/", "widgets">>, <<"acme", "/", "gears">> }
ConcTags == {"latest", "main", "dev", "abc123", "def456"}
ConcDirs == {"build1", "build2"}

\* No concurrent builds are running.
ConcIdle ==
  /\ copts = <<>>
  /\ cpc = <<>>
  /\ ci = <<>>
  /\ cdir = <<>>
  /\ cerr = <<>>
  /\ work = <<>>
  /\ local = <<>>
  /\ registry = <<>>
  /\ tagged = <<>>
  /\ pushed = <<>>

\* No log stream is in use.
LogsIdle ==
  /\ lw = [state |-> "none", bucket |-> "", name |-> <<>>, b |-> <<>>]
  /\ puts = <<>>
  /\ lops = <<>>
  /\ opened = [state |-> "none"]

Init ==
  /\ LogsIdle
  /\ ConcIdle
  /\ opts \in [Repository : Repositories, Commit : Commits, Branch : Branches]
  /\ github \in {newGitHubClient(t) : t \in Tokens}
  /\ pc = "tempdir"
  /\ dir = ""
  /\ err = Nil
  /\ i = 0
  /\ calls = <<>>
  /\ stages = <<>>
  /\ ret = Nil

\* A stage function returned e to Build: wrap and leave on an error, go on
\* otherwise.
StageReturn(stage, e, next) ==
  /\ stages' = Append(stages, [stage |-> stage, err |-> e])
  /\ IF e # Nil
       THEN /\ err' = Errorf(stage \o ":", e)
            /\ pc' = "defer"
            /\ i' = 0
       ELSE /\ err' = Nil
            /\ pc' = next
            /\ i' = 1

\* dir, err = ioutil.TempDir(c.BuildDir, opts.Commit)
TempDir ==
  /\ pc = "tempdir"
  /\ \E e \in {Nil, MkdirErr} :
       /\ calls' = Append(calls, Call("os", "TempDir", <<opts.Commit>>, e))
       /\ IF e # Nil
            THEN /\ err' = Errorf("tempdir:", e)
                 /\ pc' = "defer"
                 /\ dir' = dir
            ELSE /\ err' = Nil
                 /\ pc' = "pending"
                 /\ dir' = "build1"
  /\ UNCHANGED <<opts, github, i, stages, ret>>
  /\ UNCHANGED <<logVars, concVars>>

\* Bug variant: the pending report is left out.
ReportPending_Skipped ==
  /\ pc = "pending"
  /\ pc' = "clone"
  /\ UNCHANGED <<opts, github, dir, err, i, calls, stages, ret>>
  /\ UNCHANGED <<logVars, concVars>>

\* Bug variant: the result of the pending report is not looked at.
ReportPending_ErrorIgnored ==
  /\ pc = "pending"
  /\ IF updateStatusPanics(opts.Repository)
       THEN /\ pc' = "defer"
            /\ UNCHANGED <<err, calls>>
       ELSE \E e \in CreateStatusResults(github) :
            /\ calls' = Append(calls,
                 updateStatus(opts.Repository, opts.Commit, "pending", e))
            /\ err' = Nil
            /\ pc' = "clone"
  /\ UNCHANGED <<opts, github, dir, i, stages, ret>>
  /\ UNCHANGED <<logVars, concVars>>

\* err = c.updateStatus(opts.Repository, opts.Commit, "pending")
ReportPending ==
  /\ pc = "pending"
  /\ IF updateStatusPanics(opts.Repository)
       THEN \* index out of range: Build unwinds through its deferred call
            /\ pc' = "defer"
            /\ UNCHANGED <<err, calls>>
       ELSE \E e \in CreateStatusResults(github) :
            /\ calls' = Append(calls,
                 updateStatus(opts.Repository, opts.Commit, "pending", e))
            /\ IF e # Nil
                 THEN /\ err' = Errorf("status:", e)
                      /\ pc' = "defer"
                 ELSE /\ err' = Nil
                      /\ pc' = "clone"
  /\ UNCHANGED <<opts, github, dir, i, stages, ret>>
  /\ UNCHANGED <<logVars, concVars>>

\* Bug variant: a failed clone is tried a second time.
GitClone_RetryOnce ==
  /\ pc = "clone"
  /\ \E e \in {Nil, ExitErr} :
       /\ calls' = Append(calls,
            Call("git", "clone", <<opts.Branch, opts.Repository, dir>>, e))
       /\ IF e # Nil
            THEN IF \E k \in DOMAIN calls : calls[k].op = "clone"
                   THEN StageReturn("checkout", e, "pull")
                   ELSE UNCHANGED <<pc, err, i, stages>>
            ELSE /\ pc' = "gitcheckout"
                 /\ UNCHANGED <<err, i, stages>>
  /\ UNCHANGED <<opts, github, dir, ret>>
  /\ UNCHANGED <<logVars, concVars>>

\* checkout: git clone --depth=50 --branch=<branch> <url> <dir>
GitClone ==
  /\ pc = "clone"
  /\ \E e \in {Nil, ExitErr} :
       /\ calls' = Append(calls,
            Call("git", "clone", <<opts.Branch, opts.Repository, dir>>, e))
       /\ IF e # Nil
            THEN StageReturn("checkout", e, "pull")
            ELSE /\ pc' = "gitcheckout"
                 /\ UNCHANGED <<err, i, stages>>
  /\ UNCHANGED <<opts, github, dir, ret>>
  /\ UNCHANGED <<logVars, concVars>>

\* checkout: git checkout -qf <commit>, whose result checkout returns
GitCheckout ==
  /\ pc = "gitcheckout"
  /\ \E e \in {Nil, ExitErr} :
       /\ calls' = Append(calls, Call("git", "checkout", <<opts.Commit, dir>>, e))
       /\ StageReturn("checkout", e, "pull")
  /\ UNCHANGED <<opts, github, dir, ret>>
  /\ UNCHANGED <<logVars, concVars>>

\* Bug variant: the error of an earlier miss is kept and returned although a
\* later pull succeeded.
PullTag_KeepsMiss ==
  /\ pc = "pull"
  /\ LET tags == PullTags(opts)
         t == tags[i]
         prev == IF i > 1 THEN calls[Len(calls)].err ELSE Nil
     IN  \E e \in {Nil, TagNotFoundErr(opts.Repository, t), AuthErr, NoTagErr} :
           /\ calls' = Append(calls,
                Call("docker", "PullImage", <<opts.Repository, t>>, e))
           /\ IF pullTagsContinue(e) /\ i < Len(tags)
                THEN /\ i' = i + 1
                     /\ UNCHANGED <<pc, err, stages>>
                ELSE StageReturn("pull", IF e = Nil THEN prev ELSE e, "build")
  /\ UNCHANGED <<opts, github, dir, ret>>
  /\ UNCHANGED <<logVars, concVars>>

\* pull / pullTags: one iteration of the loop over the candidate tags, and
\* the return that ends it.
PullTag ==
  /\ pc = "pull"
  /\ LET tags == PullTags(opts)
         t == tags[i]
     IN  \E e \in {Nil, TagNotFoundErr(opts.Repository, t), AuthErr, NoTagErr} :
           /\ calls' = Append(calls,
                Call("docker", "PullImage", <<opts.Repository, t>>, e))
           /\ IF pullTagsContinue(e) /\ i < Len(tags)
                THEN \* continue
                     /\ i' = i + 1
                     /\ UNCHANGED <<pc, err, stages>>
                ELSE \* return: err holds the result of the last pull
                     StageReturn("pull", e, "build")
  /\ UNCHANGED <<opts, github, dir, ret>>
  /\ UNCHANGED <<logVars, concVars>>

\* Bug variant: a failed build tool does not end Build, which goes on to tag.
DockerBuild_NoAbort ==
  /\ pc = "build"
  /\ \E e \in {Nil, ExitErr} :
       /\ calls' = Append(calls,
            Call("docker", "build", <<opts.Repository, dir>>, e))
       /\ IF e # Nil
            THEN /\ stages' = Append(stages, [stage |-> "build", err |-> e])
                 /\ err' = Errorf("build:", e)
                 /\ pc' = "tag"
                 /\ i' = 1
            ELSE /\ pc' = "inspect"
                 /\ UNCHANGED <<err, i, stages>>
  /\ UNCHANGED <<opts, github, dir, ret>>
  /\ UNCHANGED <<logVars, concVars>>

\* build: docker build -t <repository> .
DockerBuild ==
  /\ pc = "build"
  /\ \E e \in {Nil, ExitErr} :
       /\ calls' = Append(calls,
            Call("docker", "build", <<opts.Repository, dir>>, e))
       /\ IF e # Nil
            THEN StageReturn("build", e, "tag")
            ELSE /\ pc' = "inspect"
                 /\ UNCHANGED <<err, i, stages>>
  /\ UNCHANGED <<opts, github, dir, ret>>
  /\ UNCHANGED <<logVars, concVars>>

\* build: c.docker.InspectImage(opts.Repository), whose error build returns
InspectImage ==
  /\ pc = "inspect"
  /\ \E e \in {Nil, AuthErr} :
       /\ calls' = Append(calls,
            Call("docker", "InspectImage", <<opts.Repository>>, e))
       /\ StageReturn("build", e, "tag")
  /\ UNCHANGED <<opts, github, dir, ret>>
  /\ UNCHANGED <<logVars, concVars>>

\* Bug variant: tag returns nil from inside the loop, after the first tag.
TagImage_ReturnsInLoop ==
  /\ pc = "tag"
  /\ LET tags == BuildTags(opts)
         t == tags[i]
     IN  \E e \in {Nil, AuthErr} :
           /\ calls' = Append(calls,
                Call("docker", "TagImage", <<opts.Repository, t>>, e))
           /\ StageReturn("tag", e, "push")
  /\ UNCHANGED <<opts, github, dir, ret>>
  /\ UNCHANGED <<logVars, concVars>>

\* tag: one iteration of the loop over the tags
TagImage ==
  /\ pc = "tag"
  /\ LET tags == BuildTags(opts)
         t == tags[i]
     IN  \E e \in {Nil, AuthErr} :
           /\ calls' = Append(calls,
                Call("docker", "TagImage", <<opts.Repository, t>>, e))
           /\ IF e = Nil /\ i < Len(tags)
                THEN /\ i' = i + 1
                     /\ UNCHANGED <<pc, err, stages>>
                ELSE StageReturn("tag", e, "push")
  /\ UNCHANGED <<opts, github, dir, ret>>
  /\ UNCHANGED <<logVars, concVars>>

\* Bug variant: a failed push does not end the loop; the last error is
\* returned after all tags.
PushImage_KeepsGoing ==
  /\ pc = "push"
  /\ LET tags == PushTags(opts)
         t == tags[i]
     IN  \E e \in {Nil, AuthErr, TagNotFoundErr(opts.Repository, t)} :
           /\ calls' = Append(calls,
                Call("docker", "PushImage", <<opts.Repository, t>>, e))
           /\ IF i < Len(tags)
                THEN /\ i' = i + 1
                     /\ UNCHANGED <<pc, err, stages>>
                ELSE StageReturn("push", e, "defer")
  /\ UNCHANGED <<opts, github, dir, ret>>
  /\ UNCHANGED <<logVars, concVars>>

\* Bug variant: a failed push ends the loop but its error is dropped.
PushImage_ErrorDropped ==
  /\ pc = "push"
  /\ LET tags == PushTags(opts)
         t == tags[i]
     IN  \E e \in {Nil, AuthErr, TagNotFoundErr(opts.Repository, t)} :
           /\ calls' = Append(calls,
                Call("docker", "PushImage", <<opts.Repository, t>>, e))
           /\ IF e = Nil /\ i < Len(tags)
                THEN /\ i' = i + 1
                     /\ UNCHANGED <<pc, err, stages>>
                ELSE /\ stages' = Append(stages, [stage |-> "push", err |-> e])
                     /\ err' = Nil
                     /\ pc' = "defer"
                     /\ i' = 0
  /\ UNCHANGED <<opts, github, dir, ret>>
  /\ UNCHANGED <<logVars, concVars>>

\* push: one iteration of the loop over the tags; Build returns nil after
\* the last one
PushImage ==
  /\ pc = "push"
  /\ LET tags == PushTags(opts)
         t == tags[i]
     IN  \E e \in {Nil, AuthErr, TagNotFoundErr(opts.Repository, t)} :
           /\ calls' = Append(calls,
                Call("docker", "PushImage", <<opts.Repository, t>>, e))
           /\ IF e = Nil /\ i < Len(tags)
                THEN /\ i' = i + 1
                     /\ UNCHANGED <<pc, err, stages>>
                ELSE StageReturn("push", e, "defer")
  /\ UNCHANGED <<opts, github, dir, ret>>
  /\ UNCHANGED <<logVars, concVars>>

\* Bug variant: the terminal report sits at the end of Build instead of in a
\* deferred call, so an early error return skips it.
DeferredStatus_NotDeferred ==
  /\ pc = "defer"
  /\ IF updateStatusPanics(opts.Repository)
       THEN /\ pc' = "panicked"
            /\ UNCHANGED <<calls, ret>>
       ELSE IF err # Nil
       THEN /\ ret' = err
            /\ pc' = "returned"
            /\ UNCHANGED calls
       ELSE \E e \in CreateStatusResults(github) :
              /\ calls' = Append(calls,
                   updateStatus(opts.Repository, opts.Commit, "success", e))
              /\ ret' = err
              /\ pc' = "returned"
  /\ UNCHANGED <<opts, github, dir, err, i, stages>>
  /\ UNCHANGED <<logVars, concVars>>

\* Bug variant: a failed terminal report replaces the value Build returns.
DeferredStatus_ErrorReturned ==
  /\ pc = "defer"
  /\ IF updateStatusPanics(opts.Repository)
       THEN /\ pc' = "panicked"
            /\ UNCHANGED <<calls, ret>>
       ELSE LET status == IF err # Nil THEN "error" ELSE "success"
            IN  \E e \in CreateStatusResults(github) :
                  /\ calls' = Append(calls,
                       updateStatus(opts.Repository, opts.Commit, status, e))
                  /\ ret' = IF e # Nil THEN Errorf("status:", e) ELSE err
                  /\ pc' = "returned"
  /\ UNCHANGED <<opts, github, dir, err, i, stages>>
  /\ UNCHANGED <<logVars, concVars>>

\* The deferred function: report "success" or "error" by the value of err,
\* drop the report's own result, and let Build return err.
DeferredStatus ==
  /\ pc = "defer"
  /\ IF updateStatusPanics(opts.Repository)
       THEN /\ pc' = "panicked"
            /\ UNCHANGED <<calls, ret>>
       ELSE LET status == IF err # Nil THEN "error" ELSE "success"
            IN  \E e \in CreateStatusResults(github) :
                  /\ calls' = Append(calls,
                       updateStatus(opts.Repository, opts.Commit, status, e))
                  /\ ret' = err
                  /\ pc' = "returned"
  /\ UNCHANGED <<opts, github, dir, err, i, stages>>
  /\ UNCHANGED <<logVars, concVars>>

Next ==
  \/ TempDir
  \/ ReportPending
  \/ GitClone
  \/ GitCheckout
  \/ PullTag
  \/ DockerBuild
  \/ InspectImage
  \/ TagImage
  \/ PushImage
  \/ DeferredStatus

Spec == Init /\ [][Next]_vars

(* ---------------------------------------------------------------------- *)
(* The s3 log sink (src/unnamed/part_001)                                 *)
(*                                                                        *)
(* A path is the sequence of its '/'-separated elements, a body the       *)
(* sequence of its bytes.                                                 *)
(* ---------------------------------------------------------------------- *)

MaxWrites == 3
MaxCloses == 2

Bucket == "conveyor-logs"

\* Names a stream is created under.
LogNames == { <<"build1">>, <<"builds", "42">> }

\* What one Write call may carry.
Payloads == { <<"a">>, <<"b", "c">> }

S3Err == <<"RequestError:", "send", "request", "failed">>
NotImplementedErr == <<"s3", "logs:", "read", "is", "not", "implemented", "yet">>

\* fmt.Sprintf("%s.txt", name)
SprintfTxt(name) ==
  IF name = <<>> THEN <<".txt">>
  ELSE SubSeq(name, 1, Len(name) - 1) \o <<name[Len(name)] \o ".txt">>

\* filepath.Clean on a relative path: empty and "." elements are dropped,
\* ".." removes the element before it.
RECURSIVE CleanFrom(_, _, _)
CleanFrom(path, k, out) ==
  IF k > Len(path) THEN (IF out = <<>> THEN <<".">> ELSE out)
  ELSE LET e == path[k]
       IN  IF e = "" \/ e = "." THEN CleanFrom(path, k + 1, out)
           ELSE IF e = ".." /\ out # <<>> /\ out[Len(out)] # ".."
             THEN CleanFrom(path, k + 1, SubSeq(out, 1, Len(out) - 1))
           ELSE CleanFrom(path, k + 1, Append(out, e))

\* filepath.Join(a, b)
Join(a, b) == CleanFrom(a \o b, 1, <<>>)

\* The state of the Build component while another component is modelled.
BuildIdle ==
  /\ opts = [Repository |-> <<"acme", "/", "widgets">>, Commit |-> "abc123",
             Branch |-> "main"]
  /\ github = newGitHubClient("")
  /\ pc = "idle"
  /\ dir = ""
  /\ err = Nil
  /\ i = 0
  /\ calls = <<>>
  /\ stages = <<>>
  /\ ret = Nil

LInit ==
  /\ BuildIdle
  /\ ConcIdle
  /\ LogsIdle

NumWrites == Cardinality({k \in DOMAIN lops : lops[k][1] = "Write"})
NumCloses == Cardinality({k \in DOMAIN lops : lops[k][1] = "Close"})

\* Logs.Create: a writer with an empty buffer, named logs/<name>.txt
Create ==
  /\ lw.state = "none"
  /\ \E name \in LogNames :
       /\ lw' = [state |-> "created", bucket |-> Bucket,
                 name |-> Join(<<"logs">>, SprintfTxt(name)), b |-> <<>>]
       /\ lops' = Append(lops, <<"Create", name>>)
  /\ UNCHANGED <<puts, opened, buildVars, concVars>>

\* Bug variant: Open gives a reader once an object was put under the name.
Open_ReadsBack ==
  /\ \E name \in LogNames :
       opened' = IF \E k \in DOMAIN puts :
                      puts[k].key = Join(<<"logs">>, SprintfTxt(name))
                 THEN [state |-> "returned", name |-> name, stream |-> "reader",
                       err |-> Nil]
                 ELSE [state |-> "returned", name |-> name, stream |-> "nil",
                       err |-> NotImplementedErr]
  /\ UNCHANGED <<lw, puts, lops, buildVars, concVars>>

\* Logs.Open: no stream, and the not-implemented error
Open ==
  /\ \E name \in LogNames :
       opened' = [state |-> "returned", name |-> name, stream |-> "nil",
                  err |-> NotImplementedErr]
  /\ UNCHANGED <<lw, puts, lops, buildVars, concVars>>

\* Bug variant: p replaces what the buffer holds.
Write_Overwrites ==
  /\ lw.state = "created"
  /\ NumWrites < MaxWrites
  /\ \E p \in Payloads :
       /\ lw' = [lw EXCEPT !.b = p]
       /\ lops' = Append(lops, <<"Write", p>>)
  /\ UNCHANGED <<puts, opened, buildVars, concVars>>

\* writer.Write: p is appended to the buffer
Write ==
  /\ lw.state = "created"
  /\ NumWrites < MaxWrites
  /\ \E p \in Payloads :
       /\ lw' = [lw EXCEPT !.b = @ \o p]
       /\ lops' = Append(lops, <<"Write", p>>)
  /\ UNCHANGED <<puts, opened, buildVars, concVars>>

\* The PutObject request Close makes.
PutObject(w, e) ==
  [bucket |-> w.bucket, key |-> w.name, acl |-> "public-read", body |-> w.b,
   length |-> Len(w.b), type |-> "text/plain", err |-> e]

\* Bug variant: the put reads the buffer empty.
Close_Drains ==
  /\ lw.state = "created"
  /\ NumCloses < MaxCloses
  /\ \E e \in {Nil, S3Err} :
       puts' = Append(puts, PutObject(lw, e))
  /\ lw' = [lw EXCEPT !.b = <<>>]
  /\ lops' = Append(lops, <<"Close">>)
  /\ UNCHANGED <<opened, buildVars, concVars>>

\* writer.Close: one PutObject of all the buffer holds; the buffer is left
\* as it is and the writer stays usable.
Close ==
  /\ lw.state = "created"
  /\ NumCloses < MaxCloses
  /\ \E e \in {Nil, S3Err} :
       puts' = Append(puts, PutObject(lw, e))
  /\ lops' = Append(lops, <<"Close">>)
  /\ UNCHANGED <<lw, opened, buildVars, concVars>>

LNext ==
  \/ Create
  \/ Open
  \/ Write
  \/ Close

SpecLogs == LInit /\ [][LNext]_vars

(* ---------------------------------------------------------------------- *)
(* Two concurrent Builds on one docker daemon and one registry            *)
(*                                                                        *)
(* Each build has its own request, position and working directory; the    *)
(* daemon's image names (local) and the registry are shared.  A name      *)
(* <<repository, tag>> holds the image it points to.                      *)
(* ---------------------------------------------------------------------- *)

CInit ==
  /\ BuildIdle
  /\ LogsIdle
  /\ copts \in { o \in [Builds -> [Repository : ConcRepos,
                                   Commit : {"abc123", "def456"},
                                   Branch : {"main", "dev"}]] :
                  /\ o[1] = [Repository |-> <<"acme", "/", "widgets">>,
                             Commit |-> "abc123", Branch |-> "main"]
                  /\ o[2].Commit = "def456" }
  /\ cpc = [b \in Builds |-> "tempdir"]
  /\ ci = [b \in Builds |-> 0]
  /\ cdir = [b \in Builds |-> ""]
  /\ cerr = [b \in Builds |-> ""]
  /\ work = [d \in ConcDirs |-> "none"]
  /\ local = [n \in ConcRepos \X ConcTags |-> "none"]
  /\ registry = [n \in ConcRepos \X ConcTags |->
                   IF n[2] = "latest" THEN "old" ELSE "none"]
  /\ tagged = [b \in Builds |-> "none"]
  /\ pushed = [b \in Builds |-> "none"]

\* Build b leaves a step: to the deferred call with the failed step's name,
\* or on to the next step.
CGoto(b, failed, step, next) ==
  IF failed
    THEN /\ cpc' = [cpc EXCEPT ![b] = "defer"]
         /\ cerr' = [cerr EXCEPT ![b] = step]
         /\ ci' = [ci EXCEPT ![b] = 0]
    ELSE /\ cpc' = [cpc EXCEPT ![b] = next]
         /\ cerr' = cerr
         /\ ci' = [ci EXCEPT ![b] = 1]

\* ioutil.TempDir: a directory no other build has
CTempDir(b) ==
  /\ cpc[b] = "tempdir"
  /\ \E failed \in BOOLEAN :
       /\ CGoto(b, failed, "tempdir", "pending")
       /\ cdir' = [cdir EXCEPT ![b] =
                     IF failed THEN "" ELSE IF b = 1 THEN "build1" ELSE "build2"]
  /\ UNCHANGED <<copts, work, local, registry, tagged, pushed, buildVars, logVars>>

\* The pending status report
CReportPending(b) ==
  /\ cpc[b] = "pending"
  /\ \E failed \in BOOLEAN : CGoto(b, failed, "status", "checkout")
  /\ UNCHANGED <<copts, cdir, work, local, registry, tagged, pushed, buildVars, logVars>>

\* checkout: the commit's tree is put into the build's working directory
CCheckout(b) ==
  /\ cpc[b] = "checkout"
  /\ \E failed \in BOOLEAN :
       /\ CGoto(b, failed, "checkout", "pull")
       /\ work' = IF failed THEN work
                  ELSE [work EXCEPT ![cdir[b]] = copts[b].Commit]
  /\ UNCHANGED <<copts, cdir, local, registry, tagged, pushed, buildVars, logVars>>

\* pull / pullTags: one pull; a pull that succeeds makes the local name
\* point to the registry's image
CPullTag(b) ==
  /\ cpc[b] = "pull"
  /\ LET tags == PullTags(copts[b])
         t == tags[ci[b]]
         n == <<copts[b].Repository, t>>
         results == {AuthErr} \cup
                    (IF registry[n] = "none"
                       THEN {TagNotFoundErr(copts[b].Repository, t)}
                       ELSE {Nil})
     IN  \E e \in results :
           /\ local' = IF e = Nil THEN [local EXCEPT ![n] = registry[n]]
                       ELSE local
           /\ IF pullTagsContinue(e) /\ ci[b] < Len(tags)
                THEN /\ ci' = [ci EXCEPT ![b] = @ + 1]
                     /\ UNCHANGED <<cpc, cerr>>
                ELSE CGoto(b, e # Nil, "pull", "build")
  /\ UNCHANGED <<copts, cdir, work, registry, tagged, pushed, buildVars, logVars>>

\* build: docker build -t <repository> . in the working directory: the
\* name <repository>:latest now points to the image built from its tree
CDockerBuild(b) ==
  /\ cpc[b] = "build"
  /\ \E failed \in BOOLEAN :
       /\ local' = IF failed THEN local
                   ELSE [local EXCEPT ![<<copts[b].Repository, "latest">>] =
                           work[cdir[b]]]
       /\ IF failed THEN CGoto(b, TRUE, "build", "tag")
          ELSE /\ cpc' = [cpc EXCEPT ![b] = "inspect"]
               /\ UNCHANGED <<cerr, ci>>
  /\ UNCHANGED <<copts, cdir, work, registry, tagged, pushed, buildVars, logVars>>

\* build: InspectImage(<repository>), whose image Build does not use
CInspectImage(b) ==
  /\ cpc[b] = "inspect"
  /\ \E failed \in BOOLEAN : CGoto(b, failed, "build", "tag")
  /\ UNCHANGED <<copts, cdir, work, local, registry, tagged, pushed, buildVars, logVars>>

\* tag: TagImage(<repository>, tag): the image that <repository>:latest
\* points to at this moment gets the tag
CTagImage(b) ==
  /\ cpc[b] = "tag"
  /\ LET tags == BuildTags(copts[b])
         t == tags[ci[b]]
         repo == copts[b].Repository
     IN  \E failed \in BOOLEAN :
           /\ local' = IF failed THEN local
                       ELSE [local EXCEPT ![<<repo, t>>] = local[<<repo, "latest">>]]
           /\ tagged' = IF ~failed /\ t = copts[b].Commit
                          THEN [tagged EXCEPT ![b] = local[<<repo, "latest">>]]
                          ELSE tagged
           /\ IF ~failed /\ ci[b] < Len(tags)
                THEN /\ ci' = [ci EXCEPT ![b] = @ + 1]
                     /\ UNCHANGED <<cpc, cerr>>
                ELSE CGoto(b, failed, "tag", "push")
  /\ UNCHANGED <<copts, cdir, work, registry, pushed, buildVars, logVars>>

\* push: PushImage(<repository>, tag): the registry's name now points to
\* the image the local name points to
CPushImage(b) ==
  /\ cpc[b] = "push"
  /\ LET tags == PushTags(copts[b])
         t == tags[ci[b]]
         n == <<copts[b].Repository, t>>
     IN  \E failed \in BOOLEAN :
           /\ registry' = IF failed THEN registry
                          ELSE [registry EXCEPT ![n] = local[n]]
           /\ pushed' = IF ~failed /\ t = copts[b].Commit
                          THEN [pushed EXCEPT ![b] = local[n]]
                          ELSE pushed
           /\ IF ~failed /\ ci[b] < Len(tags)
                THEN /\ ci' = [ci EXCEPT ![b] = @ + 1]
                     /\ UNCHANGED <<cpc, cerr>>
                ELSE CGoto(b, failed, "push", "defer")
  /\ UNCHANGED <<copts, cdir, work, local, tagged, buildVars, logVars>>

\* The deferred terminal report, and the return
CDeferredStatus(b) ==
  /\ cpc[b] = "defer"
  /\ cpc' = [cpc EXCEPT ![b] = "returned"]
  /\ UNCHANGED <<copts, ci, cdir, cerr, work, local, registry, tagged, pushed,
                 buildVars, logVars>>

CNext ==
  \E b \in Builds :
    \/ CTempDir(b)
    \/ CReportPending(b)
    \/ CCheckout(b)
    \/ CPullTag(b)
    \/ CDockerBuild(b)
    \/ CInspectImage(b)
    \/ CTagImage(b)
    \/ CPushImage(b)
    \/ CDeferredStatus(b)

SpecConc == CInit /\ [][CNext]_vars

(* ---------------------------------------------------------------------- *)
(* Reading the record of calls                                            *)
(* ---------------------------------------------------------------------- *)

\* The repository is in "owner/name" form.
OwnerNameForm(repo) == Len(repo) = 3 /\ repo[1] # "/" /\ repo[2] = "/" /\ repo[3] # "/"

OpIdx(ops) == {k \in DOMAIN calls : calls[k].op \in ops}

StatusIdx == OpIdx({"CreateStatus"})
StateOf(k) == calls[k].args[4]
PendingIdx == {k \in StatusIdx : StateOf(k) = "pending"}
TerminalIdx == {k \in StatusIdx : StateOf(k) \in {"success", "error"}}

\* Calls to the collaborators of the five stages.
StageOps == {"clone", "checkout", "PullImage", "build", "InspectImage",
             "TagImage", "PushImage"}
StageIdx == OpIdx(StageOps)

StageNames == {"checkout", "pull", "build", "tag", "push"}

StageOf(op) ==
  CASE op \in {"clone", "checkout"} -> "checkout"
    [] op = "PullImage" -> "pull"
    [] op \in {"build", "InspectImage"} -> "build"
    [] op = "TagImage" -> "tag"
    [] op = "PushImage" -> "push"

StageRank(s) ==
  CASE s = "checkout" -> 1 [] s = "pull" -> 2 [] s = "build" -> 3
    [] s = "tag" -> 4 [] s = "push" -> 5

\* The stage function returned, and what it returned.
StageDone(s) == \E k \in DOMAIN stages : stages[k].stage = s
StageOK(s) == \E k \in DOMAIN stages : stages[k].stage = s /\ stages[k].err = Nil
StageFailed(s) == \E k \in DOMAIN stages : stages[k].stage = s /\ stages[k].err # Nil

\* All calls with the given ops were made, n of them, and none failed.
AllOK(ops, n) ==
  /\ Cardinality(OpIdx(ops)) = n
  /\ \A k \in OpIdx(ops) : calls[k].err = Nil

\* A pull that found no such tag.
IsMiss(k) == calls[k].op = "PullImage" /\ calls[k].err # Nil /\ tagNotFound(calls[k].err)

\* Every stage ran to its end without a failure, read from the calls alone;
\* for the cache warm: the last pull succeeded or was a miss.
PipelineCompleted ==
  /\ AllOK({"clone"}, 1) /\ AllOK({"checkout"}, 1)
  /\ OpIdx({"PullImage"}) # {}
  /\ \A k \in OpIdx({"PullImage"}) : calls[k].err = Nil \/ IsMiss(k)
  /\ AllOK({"build"}, 1) /\ AllOK({"InspectImage"}, 1)
  /\ AllOK({"TagImage"}, 2)
  /\ AllOK({"PushImage"}, 3)

(* ---------------------------------------------------------------------- *)
(* Properties                                                             *)
(* ---------------------------------------------------------------------- *)

\* C1: for a repository in owner/name form, Build never panics, has issued
\* no terminal status report while it runs, and when it has returned, on
\* whatever exit path, exactly one terminal report was issued and no status
\* report (indeed no call at all) comes after it.
C1_ExactlyOneTerminalReport ==
  OwnerNameForm(opts.Repository) =>
    /\ pc # "panicked"
    /\ pc # "returned" => TerminalIdx = {}
    /\ pc = "returned" =>
         /\ Cardinality(TerminalIdx) = 1
         /\ \A k \in StatusIdx : \A t \in TerminalIdx : k <= t
         /\ Len(calls) \in TerminalIdx

\* C1 witness: Build returned after its push stage failed, and the terminal
\* report is there.
C1_Witness ==
  /\ OwnerNameForm(opts.Repository)
  /\ pc = "returned"
  /\ StageFailed("push")
  /\ Cardinality(TerminalIdx) = 1

\* Pending reports made before the terminal report, for the terminal
\* report's repository and commit.
PendingBeforeTerminal ==
  {k \in PendingIdx : \E t \in TerminalIdx :
      /\ k < t
      /\ calls[k].args[1] = calls[t].args[1]
      /\ calls[k].args[2] = calls[t].args[2]
      /\ calls[k].args[3] = calls[t].args[3]}

TempDirFailed == \E k \in OpIdx({"TempDir"}) : calls[k].err # Nil

\* C2 as stated: whenever Build has returned, whichever step failed, exactly
\* one pending report precedes the terminal report.
C2_Original ==
  pc = "returned" => Cardinality(PendingBeforeTerminal) = 1

\* C2 amended: when the working directory was allocated, exactly one pending
\* report for the same repository and commit precedes the terminal report,
\* whichever later step failed; when the allocation failed, the terminal
\* report is made with no pending report before it.
C2_PendingUnlessTempDirFailed ==
  pc = "returned" =>
    /\ Cardinality(TerminalIdx) = 1
    /\ Cardinality(PendingIdx) = Cardinality(PendingBeforeTerminal)
    /\ Cardinality(PendingBeforeTerminal) = IF TempDirFailed THEN 0 ELSE 1

\* C2 witness: the pending report itself failed, and Build returned with
\* that one pending report before the terminal one.
C2_Witness ==
  /\ pc = "returned"
  /\ ret # Nil /\ Head(ret) = "status:"
  /\ Cardinality(PendingBeforeTerminal) = 1

\* C3: when Build has returned, the terminal report says "success" exactly
\* when checkout, pull, build, tag and push all returned without error,
\* which is exactly when all their calls completed, and exactly when Build
\* returns nil; otherwise it says "error".
C3_TerminalStateAgrees ==
  pc = "returned" =>
    LET state == StateOf(Len(calls))
    IN  /\ state \in {"success", "error"}
        /\ state = "success" <=> \A s \in StageNames : StageOK(s)
        /\ state = "success" <=> PipelineCompleted
        /\ state = "success" <=> ret = Nil

\* C3 witness: a Build that returned with all five stages done and reported
\* success.
C3_Witness ==
  /\ pc = "returned"
  /\ PipelineCompleted
  /\ ret = Nil
  /\ StateOf(Len(calls)) = "success"

Rank(k) == StageRank(StageOf(calls[k].op))

\* C4: the calls of the stages appear in the order checkout, pull, build,
\* tag, push; a stage has a call only if every earlier stage returned
\* without error; once a stage has failed there is no call of a later stage;
\* and after a failure of the build tool or of the image inspection there is
\* no TagImage and no PushImage call and the terminal report says "error".
C4_StagesInOrder ==
  /\ \A j, k \in StageIdx : j < k => Rank(j) <= Rank(k)
  /\ \A k \in StageIdx : \A s \in StageNames :
       StageRank(s) < Rank(k) => StageOK(s)
  /\ \A s \in StageNames :
       StageFailed(s) => \A k \in StageIdx : Rank(k) <= StageRank(s)
  /\ (\E k \in OpIdx({"build", "InspectImage"}) : calls[k].err # Nil) =>
       /\ OpIdx({"TagImage", "PushImage"}) = {}
       /\ pc = "returned" => StateOf(Len(calls)) = "error"

\* C4 witness: Build returned after the build tool failed.
C4_Witness ==
  /\ pc = "returned"
  /\ \E k \in OpIdx({"build"}) : calls[k].err # Nil
  /\ StateOf(Len(calls)) = "error"

PullIdx == OpIdx({"PullImage"})

\* Every candidate tag was pulled and every pull was a miss.
AllMisses ==
  /\ Cardinality(PullIdx) = 2
  /\ \A k \in PullIdx : IsMiss(k)

\* C5 as stated: when the pulls of both candidates were misses, pull returned
\* no error and Build is at, or past, the call of the build tool.
C5_AllMissesAccepted ==
  AllMisses =>
    /\ StageOK("pull")
    /\ pc = "build" \/ OpIdx({"build"}) # {}

\* The number of pulls among the first k calls.
PullsUpTo(k) == Cardinality({j \in PullIdx : j <= k})

\* C6: the k-th pull is of the k-th candidate (branch, then "latest"); a
\* pull is made only when every earlier pull was a miss; a successful pull
\* is the last one and pull returns no error after it.
C6_FallbackOrder ==
  /\ \A k \in PullIdx :
       /\ PullsUpTo(k) <= 2
       /\ calls[k].args[2] = <<opts.Branch, "latest">>[PullsUpTo(k)]
       /\ calls[k].args[1] = opts.Repository
  /\ \A j, k \in PullIdx : j < k => IsMiss(j)
  /\ \A k \in PullIdx : calls[k].err = Nil =>
       /\ \A j \in PullIdx : j <= k
       /\ StageOK("pull")

\* C6 witness: the pull of the branch was a miss, the pull of "latest"
\* succeeded, and pull returned no error.
C6_Witness ==
  /\ opts.Branch = "main"
  /\ Cardinality(PullIdx) = 2
  /\ \E j, k \in PullIdx :
       /\ j < k
       /\ IsMiss(j) /\ calls[j].args[2] = "main"
       /\ calls[k].err = Nil /\ calls[k].args[2] = "latest"
  /\ StageOK("pull")

\* A pull that failed with something else than tag-not-found.
IsFatalPull(k) ==
  calls[k].op = "PullImage" /\ calls[k].err # Nil /\ ~tagNotFound(calls[k].err)

\* C7: a pull that fails with anything but tag-not-found is the last pull,
\* pull returns that very error, no call of the build, tag or push stage is
\* made, and Build returns the error wrapped as a pull error.
C7_FatalPullAborts ==
  \A k \in PullIdx : IsFatalPull(k) =>
    /\ \A j \in PullIdx : j <= k
    /\ \E n \in DOMAIN stages :
         stages[n].stage = "pull" /\ stages[n].err = calls[k].err
    /\ OpIdx({"build", "InspectImage", "TagImage", "PushImage"}) = {}
    /\ pc \in {"defer", "returned"}
    /\ pc = "returned" => ret = <<"pull:">> \o calls[k].err

\* C7 witness: the pull of the branch failed on authentication, "latest" was
\* never pulled, and Build returned.
C7_Witness ==
  /\ pc = "returned"
  /\ Cardinality(PullIdx) = 1
  /\ \E k \in PullIdx : calls[k].err = AuthErr /\ calls[k].args[2] = opts.Branch
  /\ opts.Branch # "latest"

\* C8: every call of a stage comes after a pending report that succeeded
\* and after every pending report, and before the terminal report; a Build
\* that returns nil made exactly two reports, "pending" before the clone and
\* "success" after the last push.
C8_ReportsAroundStages ==
  /\ \A k \in StageIdx :
       /\ \E j \in PendingIdx : j < k /\ calls[j].err = Nil
       /\ \A j \in PendingIdx : j < k
       /\ \A t \in TerminalIdx : k < t
  /\ (pc = "returned" /\ ret = Nil) =>
       /\ Cardinality(StatusIdx) = 2
       /\ \E j \in PendingIdx : \A k \in OpIdx({"clone"}) : j < k
       /\ \E t \in StatusIdx :
            /\ StateOf(t) = "success"
            /\ \A k \in OpIdx({"PushImage"}) : k < t
       /\ Cardinality(OpIdx({"clone"})) = 1
       /\ Cardinality(OpIdx({"PushImage"})) = 3

\* C8 witness: a Build that returned nil with its two reports.
C8_Witness ==
  /\ pc = "returned"
  /\ ret = Nil
  /\ Cardinality(StatusIdx) = 2
  /\ Cardinality(OpIdx({"PushImage"})) = 3

\* The tags of the calls of one operation, in call order.
IsTagImage(c) == c.op = "TagImage"
IsPushImage(c) == c.op = "PushImage"
TagsOf(cs) == [k \in 1..Len(cs) |-> cs[k].args[2]]
ImagesOf(cs) == {cs[k].args[1] : k \in 1..Len(cs)}

\* C9: a Build that returns nil has called TagImage for exactly branch then
\* commit, PushImage for exactly "latest" then branch then commit, all on
\* the repository's image, and every TagImage call before every PushImage
\* call.
C9_TagsAndPushes ==
  (pc = "returned" /\ ret = Nil) =>
    /\ TagsOf(SelectSeq(calls, IsTagImage)) = <<opts.Branch, opts.Commit>>
    /\ TagsOf(SelectSeq(calls, IsPushImage)) = <<"latest", opts.Branch, opts.Commit>>
    /\ ImagesOf(SelectSeq(calls, IsTagImage)) = {opts.Repository}
    /\ ImagesOf(SelectSeq(calls, IsPushImage)) = {opts.Repository}
    /\ \A j \in OpIdx({"TagImage"}) : \A k \in OpIdx({"PushImage"}) : j < k

\* C9 witness: a successful Build of branch main.
C9_Witness ==
  /\ pc = "returned"
  /\ ret = Nil
  /\ opts.Branch = "main"
  /\ Len(SelectSeq(calls, IsPushImage)) = 3

\* A call of stage s that is a failure of the stage: any failed call, but
\* for the cache warm only a failure other than tag-not-found.
IsStageFailure(s, k) ==
  /\ k \in StageIdx
  /\ StageOf(calls[k].op) = s
  /\ calls[k].err # Nil
  /\ s = "pull" => ~tagNotFound(calls[k].err)

\* C10 as stated: when Build has returned, a failure of a stage is returned
\* wrapped with that stage's name and carrying the cause, and an error
\* carrying a stage's name comes from a failure of that stage.
C10_ErrorNamesFailedStage ==
  pc = "returned" =>
    \A s \in StageNames :
      /\ \A k \in StageIdx : IsStageFailure(s, k) => ret = <<s \o ":">> \o calls[k].err
      /\ (ret # Nil /\ Head(ret) = s \o ":") => \E k \in StageIdx : IsStageFailure(s, k)

\* C11 as stated: when Build has returned, a failure of any status report it
\* made, pending or terminal, has made it return an error, and a failed
\* pending report means no stage was called.
C11_Original ==
  pc = "returned" =>
    /\ (\E k \in StatusIdx : calls[k].err # Nil) => ret # Nil
    /\ (\E k \in PendingIdx : calls[k].err # Nil) => StageIdx = {}

\* C11 amended: a failure of the pending report makes Build return that
\* error wrapped as a status error, with no stage called; a failure of the
\* terminal report is dropped: Build returns nil exactly when the working
\* directory was allocated, the pending report succeeded and all stages
\* completed, whatever the terminal report returned.
C11_OnlyPendingFailureIsFatal ==
  pc = "returned" =>
    /\ \A k \in PendingIdx : calls[k].err # Nil =>
         /\ ret = <<"status:">> \o calls[k].err
         /\ StageIdx = {}
    /\ ret = Nil <=>
         /\ ~TempDirFailed
         /\ \E k \in PendingIdx : calls[k].err = Nil
         /\ \A s \in StageNames : StageOK(s)

\* C11 witness: the terminal report failed and Build returned nil all the
\* same.
C11_Witness ==
  /\ pc = "returned"
  /\ calls[Len(calls)].op = "CreateStatus"
  /\ calls[Len(calls)].err # Nil
  /\ ret = Nil

\* The repository has no separator.
NoSeparator(repo) == \A k \in DOMAIN repo : repo[k] # "/"

InvalidRepoErr == <<"invalid", "repository", "identifier">>

\* C15 as stated: for a repository without separator Build does not crash,
\* makes no status report and calls no stage, and what it returns is the
\* invalid-repository-identifier error.
C15_MalformedRejected ==
  NoSeparator(opts.Repository) =>
    /\ pc # "panicked"
    /\ StatusIdx = {}
    /\ StageIdx = {}
    /\ pc = "returned" => ret = InvalidRepoErr

\* The number of calls of the given operation among the first k calls.
CountUpTo(op, k) == Cardinality({j \in OpIdx({op}) : j <= k})

\* The calls of op follow the list: the n-th call is for the n-th tag of the
\* list; a call is made only after all earlier ones succeeded; after a
\* failed call nothing is called but the terminal status report, and the
\* stage returns the failure.
StopsAtFirstFailure(op, stage, list) ==
  \A k \in OpIdx({op}) :
    LET n == CountUpTo(op, k)
    IN  /\ n <= Len(list)
        /\ calls[k].args[2] = list[n]
        /\ \A j \in OpIdx({op}) : j < k => calls[j].err = Nil
        /\ calls[k].err # Nil =>
             /\ \A j \in DOMAIN calls : j > k => calls[j].op = "CreateStatus"
             /\ Cardinality(OpIdx({op})) = n
             /\ \E m \in DOMAIN stages :
                  stages[m].stage = stage /\ stages[m].err = calls[k].err
             /\ pc = "returned" => ret = <<stage \o ":">> \o calls[k].err

\* C16: TagImage is called along (branch, commit) and PushImage along
\* ("latest", branch, commit), each in order; when the call for the n-th tag
\* fails, the calls before it are exactly those for the first n-1 tags, all
\* successful, no call for a later tag and no call undoing an earlier one
\* follows, and the failure is what the stage returns.
C16_StopAtFirstFailingTag ==
  /\ StopsAtFirstFailure("TagImage", "tag", <<opts.Branch, opts.Commit>>)
  /\ StopsAtFirstFailure("PushImage", "push", <<"latest", opts.Branch, opts.Commit>>)

\* C16 witness: the push of the second tag failed after the first was
\* pushed, and Build returned.
C16_Witness ==
  /\ pc = "returned"
  /\ Cardinality(OpIdx({"PushImage"})) = 2
  /\ \E j, k \in OpIdx({"PushImage"}) :
       j < k /\ calls[j].err = Nil /\ calls[k].err # Nil

\* The number of calls of op for tag t.
CallsFor(op, t) == Cardinality({k \in OpIdx({op}) : calls[k].args[2] = t})

\* The number of places of the list that hold t.
Occurrences(list, t) == Cardinality({n \in DOMAIN list : list[n] = t})

AllTags == {"latest", "main", "abc123"}

OncePerCommand ==
  \A op \in {"clone", "checkout", "build", "InspectImage"} :
    Cardinality(OpIdx({op})) <= 1

\* C17 as stated: the clone, the commit checkout, the build tool and the
\* image inspection are each called at most once, and no tag is pulled,
\* applied or pushed more than once, whatever the branch name.
C17_Original ==
  /\ OncePerCommand
  /\ \A op \in {"PullImage", "TagImage", "PushImage"} :
       \A t \in AllTags : CallsFor(op, t) <= 1

\* C17 amended: each command is called at most once and each place of the
\* candidate, tag and push lists is processed at most once, so a tag is
\* pulled, applied or pushed at most as many times as its list holds it:
\* more than once only when the branch is named "latest" or as the commit.
C17_NoRetry ==
  /\ OncePerCommand
  /\ \A t \in AllTags :
       /\ CallsFor("PullImage", t) <= Occurrences(<<opts.Branch, "latest">>, t)
       /\ CallsFor("TagImage", t) <= Occurrences(<<opts.Branch, opts.Commit>>, t)
       /\ CallsFor("PushImage", t) <=
            Occurrences(<<"latest", opts.Branch, opts.Commit>>, t)

\* C17 witness: a Build of the branch named "latest" that pushed "latest"
\* twice and has returned.
C17_Witness ==
  /\ pc = "returned"
  /\ opts.Branch = "latest"
  /\ CallsFor("PushImage", "latest") = 2
  /\ CallsFor("PullImage", "latest") = 2

\* C18 as stated: with the no-op reporter Build never crashes in a report,
\* every report is made on the no-op client and returns no error, Build
\* never returns a status error, and it returns nil exactly when the working
\* directory was allocated and the five stages completed.
C18_NullReporterNeverFails ==
  github = newGitHubClient("") =>
    /\ pc # "panicked"
    /\ \A k \in StatusIdx : calls[k].on = "nullGitHubClient" /\ calls[k].err = Nil
    /\ \A k \in DOMAIN calls : calls[k].on # "github"
    /\ pc = "returned" =>
         /\ ret # Nil => Head(ret) # "status:"
         /\ ret = Nil <=> (~TempDirFailed /\ \A s \in StageNames : StageOK(s))

\* C20: every PushImage call is for "latest", branch or commit, on the
\* repository's image; a push of "latest" comes after the successful build
\* of the image under the repository's name (which names it "latest"), a
\* push of another tag after a successful TagImage call for that tag.
C20_PushedTagsWereApplied ==
  \A k \in OpIdx({"PushImage"}) :
    LET t == calls[k].args[2]
    IN  /\ t \in {"latest", opts.Branch, opts.Commit}
        /\ calls[k].args[1] = opts.Repository
        /\ t = "latest" =>
             \E j \in OpIdx({"build"}) :
               j < k /\ calls[j].err = Nil /\ calls[j].args[1] = opts.Repository
        /\ t # "latest" =>
             \E j \in OpIdx({"TagImage"}) :
               /\ j < k /\ calls[j].err = Nil
               /\ calls[j].args = <<opts.Repository, t>>

\* C20 witness: all three tags were pushed, the branch and the commit being
\* different tags.
C20_Witness ==
  /\ opts.Branch = "main"
  /\ Cardinality(OpIdx({"PushImage"})) = 3
  /\ pc = "returned"

\* The bytes of the Write calls among the first n calls on the stream, in
\* call order.
RECURSIVE WrittenUpTo(_)
WrittenUpTo(n) ==
  IF n = 0 THEN <<>>
  ELSE IF lops[n][1] = "Write" THEN WrittenUpTo(n - 1) \o lops[n][2]
  ELSE WrittenUpTo(n - 1)

\* The name the stream was created under.
CreatedName == lops[1][2]

\* logs/<name>.txt
ExpectedKey(name) ==
  <<"logs">> \o SubSeq(name, 1, Len(name) - 1) \o <<name[Len(name)] \o ".txt">>

C14_OpenNotImplemented ==
  opened.state = "returned" =>
    /\ opened.stream = "nil"
    /\ opened.err = <<"s3", "logs:", "read", "is", "not", "implemented", "yet">>

\* C14 witness: Open of the name of a stream that was created, written and
\* closed with a successful put.
C14_Witness ==
  /\ opened.state = "returned"
  /\ lw.state = "created"
  /\ opened.name = CreatedName
  /\ NumWrites > 0
  /\ \E k \in DOMAIN puts : puts[k].err = Nil

\* The places of the Close calls among the calls on the stream.
CloseIdx == {k \in DOMAIN lops : lops[k] = <<"Close">>}

\* C19: there are as many PutObject requests as Close calls, and the one of
\* the n-th Close holds all the bytes written before that Close since the
\* stream was created, also after earlier Closes.
C19_EveryCloseFlushesAll ==
  /\ Len(puts) = Cardinality(CloseIdx)
  /\ \A k \in CloseIdx :
       LET n == Cardinality({j \in CloseIdx : j <= k})
       IN  /\ puts[n].body = WrittenUpTo(k)
           /\ puts[n].key = ExpectedKey(CreatedName)

\* C19 witness: a write, a close, a write after the close and a second
\* close, whose put holds both writes.
C19_Witness ==
  /\ Len(puts) = 2
  /\ Len(puts[1].body) > 0
  /\ Len(puts[2].body) > Len(puts[1].body)

\* C12 as stated: in every interleaving of two concurrent Builds with
\* distinct working directories, the image a build has tagged, and the
\* image it has pushed, under its own commit tag is the image built from
\* its own checkout.
C12_BuildsDoNotInterfere ==
  \A b \in Builds :
    /\ cdir[1] # "" => cdir[1] # cdir[2]
    /\ tagged[b] \in {"none", copts[b].Commit}
    /\ pushed[b] \in {"none", copts[b].Commit}

====
